---------------------------- MODULE Spec2Model ----------------------------
(***************************************************************************)
(* Model of compile.py: the ASS subtitle document model (parse / export),  *)
(* the time codec, cross-reference resolution, chapter generation and      *)
(* per-language extraction.                                                *)
(*                                                                         *)
(* Text is modelled as a sequence of lexemes.  A lexeme is either one of   *)
(* the characters the code inspects (",", ":", "!", "[", "]", ";", "#",    *)
(* ".", " ", a decimal digit) or an opaque word holding none of them.      *)
(* A Python str is therefore a Seq of lexemes, and find / split / strip /  *)
(* startswith / join are computed on that sequence.                        *)
(*                                                                         *)
(* A Python float (IEEE-754 binary64, non-negative, normal range) is the   *)
(* record [ip, fr]: integer part ip and the binary fraction digits fr      *)
(* (fr[i] weighs 2^-i), without trailing zeros.  Every float operation     *)
(* the code performs is computed exactly and then rounded to 53            *)
(* significant bits, round-half-to-even.                                   *)
(***************************************************************************)
EXTENDS Integers, Sequences, FiniteSets, TLC

VARIABLES
    tpc, tms, tx, ttext, ty,  \* time codec: position, input (ms, float), text, decoded float
    parser, line, nlines,     \* Ass.__init__: loop state, the line just read, lines read
    pending,                  \* history: fields of the Format line read since the last section line
    doc, epc, lang,           \* extractor: the Document, position, language_code argument
    title, new_ass, chapters, \* extractor: results of extract_title, extract_language, generate_chapters
    subtitles, xdoc, xi, xpc, \* resolve_xref: the dict (ordered), document being scanned, index i, position
    pass, original, resolved, \* resolve_xref: call number; history: the dict before call 1, after call 1
    origin, examined          \* history, per document: where each event of the list comes from
                              \* (its index before the call, 0 for a replacement); the events examined

timeVars == <<tpc, tms, tx, ttext, ty>>
parseVars == <<parser, line, nlines, pending>>
extractVars == <<doc, epc, lang, title, new_ass, chapters>>
xrefVars == <<subtitles, xdoc, xi, xpc, pass, original, resolved, origin, examined>>
vars == <<timeVars, parseVars, extractVars, xrefVars>>

---------------------------------------------------------------------------
(* Python str primitives on lexeme sequences                               *)

\* str.find(c): 1-based index of the first c in s, 0 when absent (Python: -1)
Find(s, c) ==
    IF \E j \in 1..Len(s) : s[j] = c
    THEN CHOOSE j \in 1..Len(s) : s[j] = c /\ \A k \in 1..(j-1) : s[k] # c
    ELSE 0

\* str.split(sep, maxsplit); a negative maxsplit means no limit
RECURSIVE Split(_, _, _)
Split(s, sep, maxsplit) ==
    LET p == Find(s, sep) IN
    IF maxsplit = 0 \/ p = 0 THEN <<s>>
    ELSE <<SubSeq(s, 1, p - 1)>> \o Split(SubSeq(s, p + 1, Len(s)), sep, maxsplit - 1)

\* str.strip(): drop leading and trailing whitespace lexemes
RECURSIVE Strip(_)
Strip(s) ==
    IF s = <<>> THEN s
    ELSE IF s[1] = " " THEN Strip(Tail(s))
    ELSE IF s[Len(s)] = " " THEN Strip(SubSeq(s, 1, Len(s) - 1))
    ELSE s

\* sep.join(parts)
RECURSIVE Join(_, _)
Join(sep, parts) ==
    IF parts = <<>> THEN <<>>
    ELSE IF Len(parts) = 1 THEN parts[1]
    ELSE parts[1] \o sep \o Join(sep, Tail(parts))

DigitChars == <<"0", "1", "2", "3", "4", "5", "6", "7", "8", "9">>

IsDigits(s) == s # <<>> /\ \A j \in 1..Len(s) : \E d \in 1..10 : DigitChars[d] = s[j]

DigitVal(c) == (CHOOSE d \in 1..10 : DigitChars[d] = c) - 1

\* int(s, 10) of a digit string
RECURSIVE DecValue(_)
DecValue(s) ==
    IF s = <<>> THEN 0
    ELSE 10 * DecValue(SubSeq(s, 1, Len(s) - 1)) + DigitVal(s[Len(s)])

\* str(n) / f"{n}" of a non-negative int
RECURSIVE DecDigits(_)
DecDigits(n) ==
    IF n < 10 THEN <<DigitChars[n + 1]>>
    ELSE Append(DecDigits(n \div 10), DigitChars[(n % 10) + 1])

\* f"{n:02d}"
Pad2(n) == IF n < 10 THEN <<"0">> \o DecDigits(n) ELSE DecDigits(n)

---------------------------------------------------------------------------
(* IEEE-754 binary64 arithmetic on [ip, fr]                                *)

\* number of binary digits of n (n.bit_length())
BitLen(n) == CHOOSE k \in 0..30 : n < 2^k /\ (k = 0 \/ 2^(k - 1) <= n)

\* drop trailing zero digits
StripZeros(fr) ==
    LET ones == {j \in 1..Len(fr) : fr[j] = 1} IN
    IF ones = {} THEN <<>>
    ELSE SubSeq(fr, 1, CHOOSE j \in ones : \A k \in ones : k <= j)

Float(ip, fr) == [ip |-> ip, fr |-> StripZeros(fr)]

\* the exception outcome of a float-valued expression
FloatError == [ip |-> -1, fr |-> <<>>]

\* number of zero digits before the first one digit of fr
LeadZeros(fr) == IF Find(fr, 1) = 0 THEN Len(fr) ELSE Find(fr, 1) - 1

\* value of at most 15 binary digits, most significant first
RECURSIVE BitsToInt(_)
BitsToInt(bits) ==
    IF bits = <<>> THEN 0
    ELSE 2 * BitsToInt(SubSeq(bits, 1, Len(bits) - 1)) + bits[Len(bits)]

\* the w low binary digits of v, most significant first
IntToBits(v, w) == [j \in 1..w |-> (v \div 2^(w - j)) % 2]

\* add one unit in the last place of fr, carrying into ip
IncBits(ip, fr) ==
    LET zeros == {j \in 1..Len(fr) : fr[j] = 0} IN
    IF zeros = {} THEN [ip |-> ip + 1, fr |-> [j \in 1..Len(fr) |-> 0]]
    ELSE LET p == CHOOSE j \in zeros : \A k \in zeros : k <= j
         IN  [ip |-> ip,
              fr |-> [j \in 1..Len(fr) |-> IF j < p THEN fr[j] ELSE IF j = p THEN 1 ELSE 0]]

\* fraction digits a binary64 holds for a value with this integer part
KeepBits(ip, fr) == IF ip > 0 THEN 53 - BitLen(ip) ELSE LeadZeros(fr) + 53

\* round the exact value ip.fr to binary64, ties to even
RoundBits(ip, fr) ==
    LET k == KeepBits(ip, fr) IN
    IF Len(fr) <= k THEN Float(ip, fr)
    ELSE LET head   == SubSeq(fr, 1, k)
             guard  == fr[k + 1]
             sticky == \E j \in (k + 2)..Len(fr) : fr[j] = 1
             lsb    == IF k = 0 THEN ip % 2 ELSE head[k]
             up     == guard = 1 /\ (sticky \/ lsb = 1)
             r      == IF up THEN IncBits(ip, head) ELSE [ip |-> ip, fr |-> head]
         IN  Float(r.ip, r.fr)

\* first n binary fraction digits of r / den (r < den <= 1000), 15 digits a step
RECURSIVE DivBits(_, _, _)
DivBits(r, den, n) ==
    IF n = 0 THEN <<>>
    ELSE LET w == IF n >= 15 THEN 15 ELSE n
             v == r * 2^w
         IN  IntToBits(v \div den, w) \o DivBits(v % den, den, n - w)

\* remainder left after those n digits
RECURSIVE DivRem(_, _, _)
DivRem(r, den, n) ==
    IF n = 0 THEN r
    ELSE LET w == IF n >= 15 THEN 15 ELSE n
         IN  DivRem((r * 2^w) % den, den, n - w)

\* zero digits before the first one digit of r / den, 0 < r < den
RECURSIVE RatioLeadZeros(_, _)
RatioLeadZeros(r, den) == IF 2 * r >= den THEN 0 ELSE 1 + RatioLeadZeros(2 * r, den)

\* the binary64 nearest to num / den (what float("...") and a float literal give)
DecToDouble(num, den) ==
    LET ip == num \div den
        r  == num % den
        k  == IF ip > 0 THEN 53 - BitLen(ip)
              ELSE IF r = 0 THEN 0 ELSE RatioLeadZeros(r, den) + 53
        \* k kept digits, the guard digit, and one sticky digit for the rest
        fr == DivBits(r, den, k + 1)
                 \o <<IF DivRem(r, den, k + 1) = 0 THEN 0 ELSE 1>>
    IN  RoundBits(ip, fr)

\* exact product of the fraction fr and an integer c <= 1000, 15 digits a step
\* (the carry enters at the last place)
RECURSIVE MulBits(_, _, _)
MulBits(fr, c, carry) ==
    IF fr = <<>> THEN [ip |-> carry, fr |-> <<>>]
    ELSE LET n == Len(fr)
             w == IF n % 15 = 0 THEN 15 ELSE n % 15
             v == BitsToInt(SubSeq(fr, n - w + 1, n)) * c + carry
             r == MulBits(SubSeq(fr, 1, n - w), c, v \div 2^w)
         IN  [ip |-> r.ip, fr |-> r.fr \o IntToBits(v % 2^w, w)]

\* fr extended with zero digits to n digits
PadBits(fr, n) == [j \in 1..n |-> IF j <= Len(fr) THEN fr[j] ELSE 0]

\* x < y
FloatLess(x, y) ==
    LET n == IF Len(x.fr) > Len(y.fr) THEN Len(x.fr) ELSE Len(y.fr)
        a == PadBits(x.fr, n)
        b == PadBits(y.fr, n)
    IN  \/ x.ip < y.ip
        \/ /\ x.ip = y.ip
           /\ \E j \in 1..n : a[j] < b[j] /\ \A k \in 1..(j - 1) : a[k] = b[k]

\* exact a - b - borrow of equally long fractions, 15 digits a step; ip is the borrow out
RECURSIVE SubBits(_, _, _)
SubBits(a, b, borrow) ==
    IF a = <<>> THEN [ip |-> borrow, fr |-> <<>>]
    ELSE LET n == Len(a)
             w == IF n % 15 = 0 THEN 15 ELSE n % 15
             v == BitsToInt(SubSeq(a, n - w + 1, n)) - BitsToInt(SubSeq(b, n - w + 1, n)) - borrow
             r == SubBits(SubSeq(a, 1, n - w), SubSeq(b, 1, n - w), IF v < 0 THEN 1 ELSE 0)
         IN  [ip |-> r.ip, fr |-> r.fr \o IntToBits(IF v < 0 THEN v + 2^w ELSE v, w)]

\* abs(x - y)
FloatAbsDiff(x, y) ==
    LET hi == IF FloatLess(x, y) THEN y ELSE x
        lo == IF FloatLess(x, y) THEN x ELSE y
        n  == IF Len(x.fr) > Len(y.fr) THEN Len(x.fr) ELSE Len(y.fr)
        d  == SubBits(PadBits(hi.fr, n), PadBits(lo.fr, n), 0)
    IN  RoundBits(hi.ip - lo.ip - d.ip, d.fr)

\* float * int
FloatMul(x, c) ==
    LET m == MulBits(x.fr, c, 0) IN RoundBits(x.ip * c + m.ip, m.fr)

\* int + float
FloatAddInt(n, x) == RoundBits(n + x.ip, x.fr)

\* float % int, exact (fmod)
FloatMod(x, n) == Float(x.ip % n, x.fr)

\* int(float): truncation
FloatToInt(x) == x.ip

\* float(s) of a decimal string "digits" or "digits.digits"
ParseFloat(s) ==
    LET p    == Find(s, ".")
        whole == IF p = 0 THEN s ELSE SubSeq(s, 1, p - 1)
        frac  == IF p = 0 THEN <<>> ELSE SubSeq(s, p + 1, Len(s))
    IN  IF IsDigits(whole) /\ (frac = <<>> \/ IsDigits(frac))
        THEN DecToDouble(DecValue(whole) * 10^Len(frac) + DecValue(frac), 10^Len(frac))
        ELSE FloatError

\* a formatter that cuts the digits after the hundredths instead of rounding
FormatFixed2Truncating(s) ==
    LET n0 == s.ip * 100 + MulBits(s.fr, 100, 0).ip
    IN  Pad2(n0 \div 100) \o <<".">> \o Pad2(n0 % 100)

\* f"{s:05.02f}": s rounded to hundredths (correctly, ties to even), zero padded to width 5
FormatFixed2(s) ==
    LET m   == MulBits(s.fr, 100, 0)
        n0  == s.ip * 100 + m.ip
        g   == IF m.fr = <<>> THEN 0 ELSE m.fr[1]
        st  == \E j \in 2..Len(m.fr) : m.fr[j] = 1
        n   == IF g = 1 /\ (st \/ n0 % 2 = 1) THEN n0 + 1 ELSE n0
    IN  Pad2(n \div 100) \o <<".">> \o Pad2(n % 100)

---------------------------------------------------------------------------
(* Codec primitives                                                        *)

asstime_from_float(val) ==
    LET h == FloatToInt(val) \div 3600
        m == (FloatToInt(val) \div 60) % 60
        s == FloatMod(val, 60)
    IN  DecDigits(h) \o <<":">> \o Pad2(m) \o <<":">> \o FormatFixed2(s)

asstime_to_float(val) ==
    LET parts == Split(val, ":", 2) IN
    IF Len(parts) # 3 \/ ~IsDigits(parts[1]) \/ ~IsDigits(parts[2])
       \/ ParseFloat(parts[3]) = FloatError
    THEN FloatError
    ELSE FloatAddInt(DecValue(parts[1]) * 3600 + DecValue(parts[2]) * 60, ParseFloat(parts[3]))

---------------------------------------------------------------------------
(* Document model: Ass.__init__ (parser) and Ass.export (serializer)       *)

\* Optional values: None is <<>>, a present value x is <<x>>
None == <<>>
Some(x) == <<x>>

AssStyle_HEADERS ==
    << <<"Name">>, <<"Fontname">>, <<"Fontsize">>, <<"PrimaryColour">>, <<"SecondaryColour">>,
       <<"OutlineColour">>, <<"BackColour">>, <<"Bold">>, <<"Italic">>, <<"Underline">>,
       <<"StrikeOut">>, <<"ScaleX">>, <<"ScaleY">>, <<"Spacing">>, <<"Angle">>,
       <<"BorderStyle">>, <<"Outline">>, <<"Shadow">>, <<"Alignment">>, <<"MarginL">>,
       <<"MarginR">>, <<"MarginV">>, <<"Encoding">> >>

AssEvent_HEADERS ==
    << <<"Layer">>, <<"Start">>, <<"End">>, <<"Style">>, <<"Name">>, <<"MarginL">>,
       <<"MarginR">>, <<"MarginV">>, <<"Effect">>, <<"Text">> >>

\* dict(zip(keys, values)): zip stops at the shorter, a repeated key keeps its last value
DictZip(keys, values) ==
    LET n == IF Len(keys) < Len(values) THEN Len(keys) ELSE Len(values) IN
    [k \in {keys[j] : j \in 1..n} |->
        values[CHOOSE j \in 1..n : keys[j] = k /\ \A i \in (j + 1)..n : keys[i] # k]]

\* d[k] = v on an insertion-ordered dict held as a sequence of <<key, value>>
DictSet(d, k, v) ==
    IF \E j \in 1..Len(d) : d[j][1] = k
    THEN [j \in 1..Len(d) |-> IF d[j][1] = k THEN <<k, v>> ELSE d[j]]
    ELSE Append(d, <<k, v>>)

\* [x.strip() for x in text.split(',', maxsplit)]
SplitFields(text, maxsplit) ==
    LET parts == Split(text, ",", maxsplit) IN [j \in 1..Len(parts) |-> Strip(parts[j])]

\* Ass.__init__ before the first line
ParserStart ==
    [section |-> None, header |-> None, error |-> "",
     script_info |-> <<>>, style_header |-> <<>>, event_header |-> <<>>,
     styles |-> <<>>, events |-> <<>>]

\* a section line that leaves the pending header in place
SectionLineKeepingHeader(st, ln) ==
    [st EXCEPT !.section = Some(SubSeq(ln, 2, Len(ln) - 1))]

\* "[...]": section = line[1:-1]; header = None
SectionLine(st, ln) ==
    [st EXCEPT !.section = Some(SubSeq(ln, 2, Len(ln) - 1)), !.header = None]

\* line_type == 'Format'
FormatLine(st, rest) ==
    IF st.header # None THEN [st EXCEPT !.error = "RuntimeError: Did not expect Format"]
    ELSE LET hdr == SplitFields(rest, -1) IN
         IF st.section = Some(<<"V4+", " ", "Styles">>)
         THEN [st EXCEPT !.header = Some(hdr), !.style_header = hdr]
         ELSE IF st.section = Some(<<"Events">>)
         THEN [st EXCEPT !.header = Some(hdr), !.event_header = hdr]
         ELSE [st EXCEPT !.header = Some(hdr)]

\* a Style / event data line; len(None) raises TypeError
DataLine(st, line_type, rest) ==
    IF st.section = Some(<<"V4+", " ", "Styles">>)
    THEN IF st.header = None THEN [st EXCEPT !.error = "TypeError: len(None)"]
         ELSE LET hdr == st.header[1] IN
              [st EXCEPT !.styles =
                  Append(@, DictZip(hdr, SplitFields(rest, Len(hdr) - 1)))]
    ELSE IF st.section = Some(<<"Events">>)
    THEN IF st.header = None THEN [st EXCEPT !.error = "TypeError: len(None)"]
         ELSE LET hdr == st.header[1] IN
              [st EXCEPT !.events =
                  Append(@, [event_type |-> line_type,
                             data |-> DictZip(hdr, SplitFields(rest, Len(hdr) - 1))])]
    ELSE st

\* one pass of the loop "for line in fp" of Ass.__init__
ParseStep(st, raw) ==
    LET ln == Strip(raw) IN
    IF ln = <<>> \/ ln[1] = ";" \/ ln[1] = "#" THEN st
    ELSE IF ln[1] = "[" /\ ln[Len(ln)] = "]" THEN SectionLine(st, ln)
    ELSE LET sep       == Find(ln, ":")
             line_type == SubSeq(ln, 1, sep - 1)
             rest      == SubSeq(ln, sep + 1, Len(ln))
         IN  IF sep = 0 THEN [st EXCEPT !.error = "RuntimeError: Invalid line"]
             ELSE IF line_type = <<"Format">> THEN FormatLine(st, rest)
             ELSE IF st.section = Some(<<"Script", " ", "Info">>)
             THEN [st EXCEPT !.script_info = DictSet(@, line_type, Strip(rest))]
             ELSE DataLine(st, line_type, rest)

\* Ass(f) on a whole text: the loop runs until a line raises
RECURSIVE ParseLines(_, _)
ParseLines(st, lines) ==
    IF lines = <<>> \/ st.error # "" THEN st
    ELSE ParseLines(ParseStep(st, lines[1]), Tail(lines))

\* the Document a parser state holds
Document(st) ==
    [script_info |-> st.script_info, style_header |-> st.style_header,
     event_header |-> st.event_header, styles |-> st.styles, events |-> st.events]

\* AssStyle.__str__ / AssEvent.__str__: the values in the order of the class HEADERS;
\* data[k] raises KeyError for a missing key
RowKeysPresent(data, headers) == \A j \in 1..Len(headers) : headers[j] \in DOMAIN data

RowText(label, data, headers) ==
    label \o <<":", " ">> \o Join(<<",">>, [j \in 1..Len(headers) |-> data[headers[j]]])

\* Ass.export: ok is FALSE when a __str__ raises KeyError, else lines is the text
export(ass) ==
    IF \/ \E j \in 1..Len(ass.styles) : ~RowKeysPresent(ass.styles[j], AssStyle_HEADERS)
       \/ \E j \in 1..Len(ass.events) : ~RowKeysPresent(ass.events[j].data, AssEvent_HEADERS)
    THEN [ok |-> FALSE, lines |-> <<>>]
    ELSE [ok |-> TRUE,
          lines |->
              << <<"[", "Script", " ", "Info", "]">> >>
              \o [j \in 1..Len(ass.script_info) |->
                     ass.script_info[j][1] \o <<":", " ">> \o ass.script_info[j][2]]
              \o << <<>>, <<"[", "V4+", " ", "Styles", "]">>,
                    <<"Format", ":", " ">> \o Join(<<",", " ">>, ass.style_header) >>
              \o [j \in 1..Len(ass.styles) |->
                     RowText(<<"Style">>, ass.styles[j], AssStyle_HEADERS)]
              \o << <<>>, <<"[", "Events", "]">>,
                    <<"Format", ":", " ">> \o Join(<<",", " ">>, ass.event_header) >>
              \o [j \in 1..Len(ass.events) |->
                     RowText(ass.events[j].event_type, ass.events[j].data, AssEvent_HEADERS)]]

---------------------------------------------------------------------------
(* AssEvent accessors                                                      *)

AssEvent_name(e)   == e.data[<<"Name">>]
AssEvent_style(e)  == e.data[<<"Style">>]
AssEvent_effect(e) == e.data[<<"Effect">>]
AssEvent_text(e)   == e.data[<<"Text">>]
AssEvent_start(e)  == asstime_to_float(e.data[<<"Start">>])
AssEvent_end(e)    == asstime_to_float(e.data[<<"End">>])

---------------------------------------------------------------------------
(* generate_chapters, extract_title, extract_language                      *)

\* the list "data" of generate_chapters after the events given; the result is "\n".join(data)
RECURSIVE generate_chapters_data(_)
generate_chapters_data(events) ==
    IF events = <<>> THEN <<>>
    ELSE LET event == Head(events) IN
         IF event.event_type # <<"Comment">> \/ AssEvent_name(event) # <<"chapter">>
         THEN generate_chapters_data(Tail(events))
         ELSE << <<"[", "CHAPTER", "]">>,
                 <<"TIMEBASE=1/1000">>,
                 <<"START=">> \o DecDigits(FloatToInt(FloatMul(AssEvent_start(event), 1000))),
                 <<"END=">> \o DecDigits(FloatToInt(FloatMul(AssEvent_end(event), 1000))),
                 <<"title=">> \o AssEvent_text(event),
                 <<>> >>
              \o generate_chapters_data(Tail(events))

generate_chapters(ass) == generate_chapters_data(ass.events)

\* a scan that compares only the start time with the first TitleEP event
RECURSIVE extract_title_relevant_start_only(_, _)
extract_title_relevant_start_only(events, relevant) ==
    IF events = <<>> THEN relevant
    ELSE LET event == Head(events)
             more  == IF AssEvent_style(event) # <<"TitleEP">> THEN relevant
                      ELSE IF relevant = <<>> THEN <<event>>
                      ELSE IF AssEvent_start(relevant[1]) = AssEvent_start(event)
                      THEN Append(relevant, event)
                      ELSE relevant
         IN  extract_title_relevant_start_only(Tail(events), more)

\* the list "relevant" of extract_title after scanning the events given
RECURSIVE extract_title_relevant(_, _)
extract_title_relevant(events, relevant) ==
    IF events = <<>> THEN relevant
    ELSE LET event == Head(events)
             more  == IF AssEvent_style(event) # <<"TitleEP">> THEN relevant
                      ELSE IF relevant = <<>> THEN <<event>>
                      ELSE IF /\ AssEvent_start(relevant[1]) = AssEvent_start(event)
                              /\ AssEvent_end(relevant[1]) = AssEvent_end(event)
                      THEN Append(relevant, event)
                      ELSE relevant
         IN  extract_title_relevant(Tail(events), more)

extract_title(ass, language_code) ==
    LET relevant == extract_title_relevant(ass.events, <<>>)
        named    == SelectSeq(relevant, LAMBDA x : AssEvent_name(x) = language_code)
    IN  Join(<<" ">>, [j \in 1..Len(named) |-> AssEvent_text(named[j])])

\* an extraction that keeps Comment events for every language
extract_language_keeping_comments(ass, language_code) ==
    [script_info  |-> DictSet(ass.script_info, <<"Title">>, extract_title(ass, language_code)),
     style_header |-> AssStyle_HEADERS,
     event_header |-> AssEvent_HEADERS,
     styles       |-> ass.styles,
     events       |-> SelectSeq(ass.events, LAMBDA x :
                         /\ x.event_type = <<"Dialogue">> \/ x.event_type = <<"Comment">>
                         /\ AssEvent_name(x) = language_code)]

extract_language(ass, language_code) ==
    [script_info  |-> DictSet(ass.script_info, <<"Title">>, extract_title(ass, language_code)),
     style_header |-> AssStyle_HEADERS,
     event_header |-> AssEvent_HEADERS,
     styles       |-> ass.styles,
     events       |-> SelectSeq(ass.events, LAMBDA x :
                         /\ \/ x.event_type = <<"Dialogue">>
                            \/ (x.event_type = <<"Comment">> /\ language_code = <<"ja">>)
                         /\ AssEvent_name(x) = language_code)]

---------------------------------------------------------------------------
(* resolve_xref                                                            *)
(* The dict "subtitles" is a sequence of [key, events] in iteration order. *)

\* subtitles[ref_file]: None for a missing key (KeyError), else Some(events)
Lookup(subs, ref_file) ==
    IF \E d \in 1..Len(subs) : subs[d].key = ref_file
    THEN Some(subs[CHOOSE d \in 1..Len(subs) : subs[d].key = ref_file].events)
    ELSE None

\* rl = event.clone() with event_type, name and text of x and an empty effect
Synthesize(event, x) ==
    [event_type |-> x.event_type,
     data |-> [event.data EXCEPT ![<<"Name">>] = AssEvent_name(x),
                                 ![<<"Effect">>] = <<>>,
                                 ![<<"Text">>] = AssEvent_text(x)]]

\* the list ref_lines built for a reference event from the target's events
RefLines(event, ref_events, ref_key) ==
    LET matched == SelectSeq(ref_events, LAMBDA x : AssEvent_effect(x) = ref_key)
    IN  [j \in 1..Len(matched) |-> Synthesize(event, matched[j])]

\* the index the scan continues at after a reference was spliced at i
AfterSplice(k, n) == k + 1

\* one pass of "while i < len(ass.events)" on document d at index k (0-based):
\* the new dict, the new index, and the exception raised if any
ExamineEvent(subs, d, k) ==
    LET ass   == subs[d]
        event == ass.events[k + 1]
        parts == Split(AssEvent_effect(event), "!", 1)
    IN  IF AssEvent_name(event) # <<"ref">>
        THEN [subs |-> subs, i |-> k + 1, error |-> ""]
        ELSE IF Len(parts) # 2
        THEN [subs |-> subs, i |-> k, error |-> "ValueError"]
        ELSE LET ref_file == parts[1]
                 ref_key  == parts[2]
                 ref_ass  == IF ref_file = <<>> THEN Some(ass.events) ELSE Lookup(subs, ref_file)
             IN  IF ref_ass = None
                 THEN [subs |-> subs, i |-> k, error |-> "KeyError"]
                 ELSE LET ref_lines == RefLines(event, ref_ass[1], ref_key)
                      IN  [subs  |-> [subs EXCEPT ![d].events =
                                         SubSeq(@, 1, k) \o ref_lines \o SubSeq(@, k + 2, Len(@))],
                           i     |-> AfterSplice(k, Len(ref_lines)),
                           error |-> ""]

---------------------------------------------------------------------------
(* Each specification below exercises one part of the program; the         *)
(* variables of the other parts stay at these values.                      *)

IdleTime == tpc = "idle" /\ tms = 0 /\ tx = FloatError /\ ttext = <<>> /\ ty = FloatError

IdleParse == parser = ParserStart /\ line = <<>> /\ nlines = 0 /\ pending = None

\* Ass(): the empty Document
EmptyAss ==
    [script_info |-> <<>>, style_header |-> <<>>, event_header |-> <<>>,
     styles |-> <<>>, events |-> <<>>]

IdleExtract ==
    /\ doc = EmptyAss /\ epc = "idle" /\ lang = <<>>
    /\ title = <<>> /\ new_ass = EmptyAss /\ chapters = <<>>

IdleXref ==
    /\ subtitles = <<>> /\ xdoc = 0 /\ xi = 0 /\ xpc = "idle"
    /\ pass = 0 /\ original = <<>> /\ resolved = <<>>
    /\ origin = <<>> /\ examined = <<>>

---------------------------------------------------------------------------
(* Parsing a file line by line                                             *)

MaxLines == 5

\* data-line text: the values joined by ","
Row(label, values) == label \o <<":", " ">> \o Join(<<",">>, values)

T_0_00_01_00 == <<"0", ":", "0", "0", ":", "0", "1", ".", "0", "0">>
T_0_00_02_50 == <<"0", ":", "0", "0", ":", "0", "2", ".", "5", "0">>

StyleValues ==
    << <<"Default">>, <<"Arial">>, <<"2", "0">>, <<"&H00FFFFFF">>, <<"&H000000FF">>,
       <<"&H00000000">>, <<"&H00000000">>, <<"0">>, <<"0">>, <<"0">>, <<"0">>,
       <<"1", "0", "0">>, <<"1", "0", "0">>, <<"0">>, <<"0">>, <<"1">>, <<"2">>, <<"2">>,
       <<"2">>, <<"1", "0">>, <<"1", "0">>, <<"1", "0">>, <<"1">> >>

\* Layer, Start, End, Style, Name, MarginL, MarginR, MarginV, Effect, Text
EventValues ==
    << <<"0">>, T_0_00_01_00, T_0_00_02_50, <<"Default">>, <<"en">>, <<"0">>, <<"0">>,
       <<"0">>, <<"intro">>, <<"Hello", ",", " ", "world">> >>

\* the same event written for a Format line that lists Start before Layer
EventValuesStartFirst ==
    << T_0_00_01_00, <<"0">>, T_0_00_02_50, <<"Default">>, <<"en">>, <<"0">>, <<"0">>,
       <<"0">>, <<"intro">>, <<"Hello", ",", " ", "world">> >>

EventHeaderStartFirst ==
    << <<"Start">>, <<"Layer">>, <<"End">>, <<"Style">>, <<"Name">>, <<"MarginL">>,
       <<"MarginR">>, <<"MarginV">>, <<"Effect">>, <<"Text">> >>

L_ScriptInfo   == <<"[", "Script", " ", "Info", "]">>
L_Styles       == <<"[", "V4+", " ", "Styles", "]">>
L_Events       == <<"[", "Events", "]">>
L_Fonts        == <<"[", "Fonts", "]">>
L_Title        == <<"Title", ":", " ", "Episode">>
L_FormatStyle  == <<"Format", ":", " ">> \o Join(<<",", " ">>, AssStyle_HEADERS)
L_FormatEvent  == <<"Format", ":", " ">> \o Join(<<",", " ">>, AssEvent_HEADERS)
L_FormatEventStartFirst == <<"Format", ":", " ">> \o Join(<<",", " ">>, EventHeaderStartFirst)
L_Style        == Row(<<"Style">>, StyleValues)
L_Dialogue     == Row(<<"Dialogue">>, EventValues)
L_DialogueStartFirst == Row(<<"Dialogue">>, EventValuesStartFirst)
L_DialogueShort == Row(<<"Comment">>, SubSeq(EventValues, 1, 3))
L_Blank        == <<" ">>
L_Remark       == <<";", " ", "note">>
L_NoColon      == <<"garbage">>

InputLines ==
    { L_ScriptInfo, L_Styles, L_Events, L_Fonts, L_Title, L_FormatStyle, L_FormatEvent,
      L_FormatEventStartFirst, L_Style, L_Dialogue, L_DialogueStartFirst, L_DialogueShort,
      L_Blank, L_Remark, L_NoColon }

SectionLines == {L_ScriptInfo, L_Styles, L_Events, L_Fonts}
FormatLines  == {L_FormatStyle, L_FormatEvent, L_FormatEventStartFirst}
RecordLines  == {L_Title, L_Style, L_Dialogue, L_DialogueStartFirst, L_DialogueShort}

\* the field list a Format line of the input declares
FormatFields(l) ==
    IF l = L_FormatStyle THEN AssStyle_HEADERS
    ELSE IF l = L_FormatEvent THEN AssEvent_HEADERS
    ELSE EventHeaderStartFirst

InitParse ==
    /\ parser = ParserStart
    /\ line = <<>>
    /\ nlines = 0
    /\ pending = None
    /\ IdleTime /\ IdleExtract /\ IdleXref

\* the loop body of Ass.__init__ on the next line of the file
ReadLine ==
    /\ nlines < MaxLines
    /\ parser.error = ""
    /\ \E l \in InputLines :
          /\ parser' = ParseStep(parser, l)
          /\ line' = l
          /\ pending' = IF l \in SectionLines THEN None
                        ELSE IF l \in FormatLines THEN Some(FormatFields(l))
                        ELSE pending
    /\ nlines' = nlines + 1
    /\ UNCHANGED <<timeVars, extractVars, xrefVars>>

NextParse == ReadLine

SpecParse == InitParse /\ [][NextParse]_vars

---------------------------------------------------------------------------
(* Claims about the parser and the serializer                              *)

Range(f) == {f[j] : j \in DOMAIN f}

IsPermutation(a, b) ==
    Len(a) = Len(b) /\ Range(a) = Range(b) /\ Cardinality(Range(a)) = Len(a)

\* every record has exactly the keys of the Document's field-order list
ShapeOk(ass) ==
    /\ \A j \in 1..Len(ass.styles) : DOMAIN ass.styles[j] = Range(ass.style_header)
    /\ \A j \in 1..Len(ass.events) : DOMAIN ass.events[j].data = Range(ass.event_header)

\* the text read so far is a well-formed file: it parsed, both Format lines list
\* every field of the format once (in any order), and every data line is complete
WellFormed(st) ==
    /\ st.error = ""
    /\ IsPermutation(st.style_header, AssStyle_HEADERS)
    /\ IsPermutation(st.event_header, AssEvent_HEADERS)
    /\ ShapeOk(Document(st))

\* C1: for a well-formed text, parse(export(parse(text))) is the Document parse(text):
\* export succeeds, its text parses without error, and script_info, both field-order
\* lists, the styles and the events (event_type and every field value) are the same.
C1_RoundTrip ==
    WellFormed(parser) =>
        LET out    == export(Document(parser))
            second == ParseLines(ParserStart, out.lines)
        IN  out.ok /\ second.error = "" /\ Document(second) = Document(parser)

\* C8: one step of the parser's header state machine.  After a section line the
\* pending header is None.  A Format line sets the pending header to its fields when
\* none is pending (whatever earlier sections declared) and is a fatal error when one
\* is pending.  A Style / event data line in 'V4+ Styles' or 'Events' is a fatal error
\* when no header is pending, and otherwise adds one record whose keys come from the
\* Format line read since the last section line, never from an earlier section's.
C8_Step ==
    /\ line' \in SectionLines =>
          parser'.error = "" /\ parser'.header = None
    /\ line' \in FormatLines =>
          IF parser.header = None
          THEN parser'.error = "" /\ parser'.header = Some(FormatFields(line'))
          ELSE parser'.error # ""
    /\ (/\ line' \in RecordLines
        /\ parser.section \in {Some(<<"V4+", " ", "Styles">>), Some(<<"Events">>)}) =>
          IF parser.header = None
          THEN parser'.error # ""
          ELSE /\ parser'.error = ""
               /\ pending # None
               /\ Len(parser'.styles) + Len(parser'.events)
                     = Len(parser.styles) + Len(parser.events) + 1
               /\ \A j \in 1..Len(parser'.styles) :
                     j > Len(parser.styles) => DOMAIN parser'.styles[j] \subseteq Range(pending[1])
               /\ \A j \in 1..Len(parser'.events) :
                     j > Len(parser.events) => DOMAIN parser'.events[j].data \subseteq Range(pending[1])
    /\ parser'.error = "" => parser'.header = pending'

C8_HeaderStateMachine == [][C8_Step]_vars

\* C8 witness: a Format line was accepted in 'Events' after 'V4+ Styles' had its own,
\* and an event was built from it
C8_Witness ==
    /\ parser.error = ""
    /\ parser.style_header = AssStyle_HEADERS
    /\ parser.event_header = EventHeaderStartFirst
    /\ parser.header = Some(EventHeaderStartFirst)
    /\ Len(parser.events) = 1

\* C10 (parser part): a Document parsed without error has, in every Style and Event,
\* exactly the keys of its style_header / event_header
C10_ParsedShape == parser.error = "" => ShapeOk(Document(parser))

---------------------------------------------------------------------------
(* Time codec round trip: encode a float, decode the text                  *)

MaxMs == 999

TimeHours == {0, 99}
TimeMins  == {0, 1, 59}
TimeSecs  == {0, 8, 59}

\* the times fed to the codec, in milliseconds: [0, 359999.99] s
TimeInputs ==
    {k \in {((h * 60 + m) * 60 + sec) * 1000 + ms :
                h \in TimeHours, m \in TimeMins, sec \in TimeSecs, ms \in 0..MaxMs} :
        k <= 359999990}

InitTime ==
    /\ tpc = "start"
    /\ tms \in TimeInputs
    /\ tx = DecToDouble(tms, 1000)
    /\ ttext = <<>>
    /\ ty = FloatError
    /\ IdleParse /\ IdleExtract /\ IdleXref

Encode ==
    /\ tpc = "start"
    /\ ttext' = asstime_from_float(tx)
    /\ tpc' = "encoded"
    /\ UNCHANGED <<tms, tx, ty, parseVars, extractVars, xrefVars>>

Decode ==
    /\ tpc = "encoded"
    /\ ty' = asstime_to_float(ttext)
    /\ tpc' = "decoded"
    /\ UNCHANGED <<tms, tx, ttext, parseVars, extractVars, xrefVars>>

NextTime == Encode \/ Decode

SpecTime == InitTime /\ [][NextTime]_vars

---------------------------------------------------------------------------
(* Claims about the time codec                                             *)

\* the float literal 0.005
Tolerance == DecToDouble(5, 1000)

\* floor(d * 10^6) of a float d < 1
Micros(d) ==
    LET m1 == MulBits(d.fr, 1000, 0)
        m2 == MulBits(m1.fr, 1000, 0)
    IN  m1.ip * 1000 + m2.ip

\* the text has the form H:MM:SS.CC
TimeTextForm(t) ==
    LET parts == Split(t, ":", 2) IN
    /\ Len(parts) = 3
    /\ IsDigits(parts[1])
    /\ Len(parts[2]) = 2 /\ IsDigits(parts[2])
    /\ Len(parts[3]) = 5 /\ parts[3][3] = "."
    /\ IsDigits(SubSeq(parts[3], 1, 2)) /\ IsDigits(SubSeq(parts[3], 4, 5))

\* the H:MM:SS.CC text of n centiseconds
CentisText(n) ==
    DecDigits(n \div 360000) \o <<":">> \o Pad2((n \div 6000) % 60) \o <<":">>
        \o Pad2((n % 6000) \div 100) \o <<".">> \o Pad2(n % 100)

\* the centiseconds a text of that form denotes
TextCentis(t) ==
    LET parts == Split(t, ":", 2) IN
    DecValue(parts[1]) * 360000 + DecValue(parts[2]) * 6000
        + DecValue(SubSeq(parts[3], 1, 2)) * 100 + DecValue(SubSeq(parts[3], 4, 5))

\* the time written in text t is within 0.005 s of the float x, exactly
\* (|1000 x - 10 n| <= 5 on the exact product)
TextWithinHalfCenti(t, x) ==
    LET m  == MulBits(x.fr, 1000, 0)
        xm == x.ip * 1000 + m.ip
        n  == TextCentis(t)
    IN  /\ xm >= 10 * n - 5
        /\ xm < 10 * n + 5 \/ (xm = 10 * n + 5 /\ StripZeros(m.fr) = <<>>)

\* C9 as stated: after encoding and decoding, abs(y - x) <= 0.005 for every x in
\* [0, 359999.99]; y = x exactly when x is a whole number of centiseconds; and the
\* encoded text has the form H:MM:SS.CC.
C9_RoundTripExact ==
    tpc = "decoded" =>
        /\ ~FloatLess(Tolerance, FloatAbsDiff(ty, tx))
        /\ (tms % 10 = 0 => ty = tx)
        /\ TimeTextForm(ttext)

\* C9 amended: the encoded text has the form H:MM:SS.CC and the time it writes is
\* within 0.005 s of x; the decoded float is within float rounding of x's round trip
\* (abs(y - x) < 0.005001); for x a whole number n of centiseconds the text is exactly
\* the H:MM:SS.CC text of n and abs(y - x) < 0.000001 (y is not always equal to x).
C9_RoundTripCentis ==
    tpc = "decoded" =>
        /\ TimeTextForm(ttext)
        /\ TextWithinHalfCenti(ttext, tx)
        /\ FloatAbsDiff(ty, tx).ip = 0 /\ Micros(FloatAbsDiff(ty, tx)) <= 5000
        /\ (tms % 10 = 0 =>
                /\ ttext = CentisText(tms \div 10)
                /\ Micros(FloatAbsDiff(ty, tx)) = 0)

\* C9 witness: a whole-centisecond time above one minute was encoded to its exact
\* text and decoded to a float that is not the input float
C9_Witness ==
    /\ tpc = "decoded"
    /\ tms % 10 = 0 /\ tms > 60000
    /\ ttext = CentisText(tms \div 10)
    /\ ty # tx

---------------------------------------------------------------------------
(* Extraction: extract_title, extract_language, generate_chapters on a     *)
(* Document whose events are drawn from EventPool                          *)

MaxEvents == 3

T_0_00_03_00 == <<"0", ":", "0", "0", ":", "0", "3", ".", "0", "0">>
T_0_01_05_00 == <<"0", ":", "0", "1", ":", "0", "5", ".", "0", "0">>
T_0_02_05_50 == <<"0", ":", "0", "2", ":", "0", "5", ".", "5", "0">>
T_0_00_02_01 == <<"0", ":", "0", "0", ":", "0", "2", ".", "0", "1">>
T_0_00_04_02 == <<"0", ":", "0", "0", ":", "0", "4", ".", "0", "2">>

\* AssEvent(event_type, data) with the ten fields of AssEvent.HEADERS
Event(event_type, start, end, style, name, effect, text) ==
    [event_type |-> event_type,
     data |-> DictZip(AssEvent_HEADERS,
                  << <<"0">>, start, end, style, name, <<"0">>, <<"0">>, <<"0">>, effect, text >>)]

EventPool ==
    { Event(<<"Dialogue">>, T_0_00_01_00, T_0_00_02_50, <<"TitleEP">>, <<"en">>, <<>>, <<"Ep">>),
      Event(<<"Dialogue">>, T_0_00_01_00, T_0_00_02_50, <<"TitleEP">>, <<"en">>, <<>>, <<"One">>),
      Event(<<"Dialogue">>, T_0_00_01_00, T_0_00_02_50, <<"TitleEP">>, <<"ja">>, <<>>, <<"Wa">>),
      Event(<<"Dialogue">>, T_0_00_01_00, T_0_00_03_00, <<"TitleEP">>, <<"en">>, <<>>, <<"Preview">>),
      Event(<<"Dialogue">>, T_0_00_01_00, T_0_00_02_50, <<"Default">>, <<"en">>, <<>>, <<"Hello">>),
      Event(<<"Comment">>,  T_0_00_01_00, T_0_00_02_50, <<"Default">>, <<"ja">>, <<>>, <<"Note">>),
      Event(<<"Comment">>,  T_0_00_01_00, T_0_00_02_50, <<"Default">>, <<"en">>, <<>>, <<"Remark">>),
      Event(<<"Picture">>,  T_0_00_01_00, T_0_00_02_50, <<"Default">>, <<"ja">>, <<>>, <<"Logo">>),
      Event(<<"Comment">>,  T_0_01_05_00, T_0_02_05_50, <<"Default">>, <<"chapter">>, <<>>,
            <<"Part", " ", "One">>),
      Event(<<"Comment">>,  T_0_00_02_01, T_0_00_04_02, <<"Default">>, <<"chapter">>, <<>>,
            <<"Intro">>),
      Event(<<"Dialogue">>, T_0_01_05_00, T_0_02_05_50, <<"Default">>, <<"chapter">>, <<>>,
            <<"Spoken">>) }

Languages == { <<"en">>, <<"ja">>, <<"ko">> }

StylePool ==
    { <<>>,
      << DictZip(AssStyle_HEADERS, StyleValues),
         DictZip(AssStyle_HEADERS, [StyleValues EXCEPT ![1] = <<"TitleEP">>]) >> }

ScriptInfoPool ==
    { <<>>, << << <<"Title">>, <<"Old">> >>, << <<"PlayResX">>, <<"6", "4", "0">> >> >> }

\* all sequences over S of length at most n
RECURSIVE SeqsUpTo(_, _)
SeqsUpTo(S, n) ==
    IF n = 0 THEN { <<>> }
    ELSE LET shorter == SeqsUpTo(S, n - 1)
         IN  shorter \cup { Append(q, x) : q \in shorter, x \in S }

InitExtract ==
    /\ \E si \in ScriptInfoPool, st \in StylePool, ev \in SeqsUpTo(EventPool, MaxEvents) :
          doc = [script_info |-> si, style_header |-> AssStyle_HEADERS,
                 event_header |-> AssEvent_HEADERS, styles |-> st, events |-> ev]
    /\ epc = "start" /\ lang = <<>>
    /\ title = <<>> /\ new_ass = EmptyAss /\ chapters = <<>>
    /\ IdleTime /\ IdleParse /\ IdleXref

ExtractTitle ==
    /\ epc = "start"
    /\ \E l \in Languages : lang' = l /\ title' = extract_title(doc, l)
    /\ epc' = "title"
    /\ UNCHANGED <<doc, new_ass, chapters, timeVars, parseVars, xrefVars>>

ExtractLanguage ==
    /\ epc = "start"
    /\ \E l \in Languages : lang' = l /\ new_ass' = extract_language(doc, l)
    /\ epc' = "language"
    /\ UNCHANGED <<doc, title, chapters, timeVars, parseVars, xrefVars>>

GenerateChapters ==
    /\ epc = "start"
    /\ chapters' = generate_chapters(doc)
    /\ epc' = "chapters"
    /\ UNCHANGED <<doc, lang, title, new_ass, timeVars, parseVars, xrefVars>>

NextExtract == ExtractTitle \/ ExtractLanguage \/ GenerateChapters

SpecExtract == InitExtract /\ [][NextExtract]_vars

---------------------------------------------------------------------------
(* Claims about the extractor                                              *)

\* the k-th smallest element of a set of numbers
Nth(S, k) == CHOOSE j \in S : Cardinality({i \in S : i < j}) = k - 1

\* the members of q at the positions in S, in order
Pick(q, S) == [k \in 1..Cardinality(S) |-> q[Nth(S, k)]]

\* positions of the events extract_language is to retain
Retained(ev, l) ==
    {j \in 1..Len(ev) :
        /\ ev[j].data[<<"Name">>] = l
        /\ \/ ev[j].event_type = <<"Dialogue">>
           \/ (ev[j].event_type = <<"Comment">> /\ l = <<"ja">>)}

\* C5: extract_language returns exactly the source events with Name == lang that are
\* Dialogue, or Comment when lang is 'ja', in source order; for another lang every
\* returned event is a Dialogue; the styles are the source styles, all and in order.
C5_ExtractLanguage ==
    epc = "language" =>
        /\ new_ass.events = Pick(doc.events, Retained(doc.events, lang))
        /\ lang # <<"ja">> =>
              \A j \in 1..Len(new_ass.events) : new_ass.events[j].event_type = <<"Dialogue">>
        /\ new_ass.styles = doc.styles

\* C5 witness: the 'ja' extraction kept a Comment named 'ja', and dropped an event
C5_Witness ==
    /\ epc = "language" /\ lang = <<"ja">>
    /\ \E j \in 1..Len(new_ass.events) : new_ass.events[j].event_type = <<"Comment">>
    /\ Len(new_ass.events) < Len(doc.events)
    /\ Len(new_ass.styles) = 2

\* positions of the TitleEP events
TitleEvents(ev) == {j \in 1..Len(ev) : ev[j].data[<<"Style">>] = <<"TitleEP">>}

\* positions of the events extract_title is to join: TitleEP, named lang, with the
\* Start and End written on the first TitleEP event
Titled(ev, l) ==
    {j \in TitleEvents(ev) :
        /\ ev[j].data[<<"Name">>] = l
        /\ ev[j].data[<<"Start">>] = ev[Nth(TitleEvents(ev), 1)].data[<<"Start">>]
        /\ ev[j].data[<<"End">>] = ev[Nth(TitleEvents(ev), 1)].data[<<"End">>]}

\* C6: extract_title returns the Text of exactly the events in Titled, in event order,
\* joined by one space; the empty string when there is none.
C6_ExtractTitle ==
    epc = "title" =>
        LET picked == Pick(doc.events, Titled(doc.events, lang))
        IN  title = Join(<<" ">>, [k \in 1..Len(picked) |-> picked[k].data[<<"Text">>]])

\* C6 witness: a TitleEP event with another (Start, End) stood between two with the
\* first one's pair; it was left out and the one after it was still joined
C6_Witness ==
    /\ epc = "title" /\ lang = <<"en">>
    /\ Len(doc.events) = 3
    /\ doc.events[1].data[<<"Text">>] = <<"Ep">>
    /\ doc.events[2].data[<<"Text">>] = <<"Preview">>
    /\ doc.events[3].data[<<"Text">>] = <<"One">>
    /\ title = <<"Ep", " ", "One">>

\* the six lines of a chapter block with the times in whole milliseconds
\* (the centiseconds written in the text, times ten)
ChapterBlock(e) ==
    << <<"[", "CHAPTER", "]">>,
       <<"TIMEBASE=1/1000">>,
       <<"START=">> \o DecDigits(TextCentis(e.data[<<"Start">>]) * 10),
       <<"END=">> \o DecDigits(TextCentis(e.data[<<"End">>]) * 10),
       <<"title=">> \o e.data[<<"Text">>],
       <<>> >>

RECURSIVE ChapterBlocks(_)
ChapterBlocks(ev) ==
    IF ev = <<>> THEN <<>>
    ELSE IF ev[1].event_type = <<"Comment">> /\ ev[1].data[<<"Name">>] = <<"chapter">>
    THEN ChapterBlock(ev[1]) \o ChapterBlocks(Tail(ev))
    ELSE ChapterBlocks(Tail(ev))

\* C7: generate_chapters emits one block per Comment event named 'chapter', in event
\* order, and nothing for any other event; START and END are the event's times in
\* whole milliseconds.
C7_GenerateChapters == epc = "chapters" => chapters = ChapterBlocks(doc.events)

---------------------------------------------------------------------------
(* resolve_xref on a dict of two documents, called twice                   *)

MaxRefEvents == 3

T_0_00_09_00 == <<"0", ":", "0", "0", ":", "0", "9", ".", "0", "0">>

Ref(effect) ==
    Event(<<"Dialogue">>, T_0_00_09_00, T_0_00_09_00, <<"RefStyle">>, <<"ref">>, effect, <<>>)

\* events of document "A": targets with Effect 'k', a plain line, and references
RefPoolA ==
    { Event(<<"Dialogue">>, T_0_00_01_00, T_0_00_02_50, <<"Default">>, <<"en">>, <<"k">>, <<"Hello">>),
      Event(<<"Comment">>,  T_0_00_01_00, T_0_00_03_00, <<"Default">>, <<"ja">>, <<"k">>, <<"World">>),
      Event(<<"Dialogue">>, T_0_00_01_00, T_0_00_02_50, <<"Default">>, <<"en">>, <<>>, <<"Plain">>),
      Ref(<<"!", "k">>),          \* self reference
      Ref(<<"!", "z">>),          \* self reference matching nothing
      Ref(<<"!">>),               \* self reference with the empty key
      Ref(<<"B", "!", "k">>),     \* reference to document "B"
      Ref(<<"Z", "!", "k">>),     \* reference to a document that does not exist
      Ref(<<"k">>) }              \* reference without '!'

\* the event lists of document "B"
RefDocsB ==
    LET b1 == Event(<<"Dialogue">>, T_0_00_02_01, T_0_00_04_02, <<"Default">>, <<"ko">>, <<"k">>, <<"Annyeong">>)
        b2 == Event(<<"Comment">>, T_0_00_02_01, T_0_00_04_02, <<"Default">>, <<"en">>, <<"k">>, <<"Bee">>)
    IN  { <<>>, <<b1>>, <<b1, b2>>, <<Ref(<<"A", "!", "k">>)>>, <<b1, Ref(<<"A", "!", "k">>)>> }

\* every event of every document tagged with its index in its list
Positions(subs) == [d \in 1..Len(subs) |-> [j \in 1..Len(subs[d].events) |-> j]]

InitXref ==
    /\ \E a \in SeqsUpTo(RefPoolA, MaxRefEvents), b \in RefDocsB :
          subtitles = << [key |-> <<"A">>, events |-> a], [key |-> <<"B">>, events |-> b] >>
    /\ original = subtitles
    /\ resolved = <<>>
    /\ xdoc = 1 /\ xi = 0 /\ xpc = "running" /\ pass = 1
    /\ origin = Positions(subtitles)
    /\ examined = [d \in 1..Len(subtitles) |-> <<>>]
    /\ IdleTime /\ IdleParse /\ IdleExtract

\* the body of the while loop, on the event at index i
Examine ==
    /\ xpc = "running"
    /\ xdoc <= Len(subtitles)
    /\ xi < Len(subtitles[xdoc].events)
    /\ LET r == ExamineEvent(subtitles, xdoc, xi)
           \* the number of events the splice put in place of the reference, if it took place
           spliced == AssEvent_name(subtitles[xdoc].events[xi + 1]) = <<"ref">> /\ r.error = ""
           n == Len(r.subs[xdoc].events) - Len(subtitles[xdoc].events) + 1
       IN
          /\ subtitles' = r.subs
          /\ xi' = r.i
          /\ xpc' = IF r.error = "" THEN "running" ELSE "error"
          /\ examined' = [examined EXCEPT ![xdoc] = Append(@, origin[xdoc][xi + 1])]
          /\ origin' = IF spliced
                       THEN [origin EXCEPT ![xdoc] =
                                SubSeq(@, 1, xi) \o [j \in 1..n |-> 0] \o SubSeq(@, xi + 2, Len(@))]
                       ELSE origin
    /\ UNCHANGED <<xdoc, pass, original, resolved, timeVars, parseVars, extractVars>>

\* a for loop that does not move on to the next document
NextDocumentStaying ==
    /\ xpc = "running"
    /\ xdoc <= Len(subtitles)
    /\ xi >= Len(subtitles[xdoc].events)
    /\ UNCHANGED vars

\* the while loop ends: the for loop takes the next document, with i = 0
NextDocument ==
    /\ xpc = "running"
    /\ xdoc <= Len(subtitles)
    /\ xi >= Len(subtitles[xdoc].events)
    /\ xdoc' = xdoc + 1
    /\ xi' = 0
    /\ UNCHANGED <<subtitles, xpc, pass, original, resolved, origin, examined, timeVars, parseVars, extractVars>>

\* the for loop ends: resolve_xref returns
Return ==
    /\ xpc = "running"
    /\ xdoc > Len(subtitles)
    /\ xpc' = "done"
    /\ UNCHANGED <<subtitles, xdoc, xi, pass, original, resolved, origin, examined, timeVars, parseVars, extractVars>>

\* resolve_xref is called again on the dict the first call returned
SecondCall ==
    /\ xpc = "done"
    /\ pass = 1
    /\ pass' = 2
    /\ resolved' = subtitles
    /\ xdoc' = 1 /\ xi' = 0 /\ xpc' = "running"
    /\ origin' = Positions(subtitles)
    /\ examined' = [d \in 1..Len(subtitles) |-> <<>>]
    /\ UNCHANGED <<subtitles, original, timeVars, parseVars, extractVars>>

NextXref == Examine \/ NextDocument \/ Return \/ SecondCall

SpecXref == InitXref /\ [][NextXref]_vars

\* a call that has started keeps executing: each step of the two loops and the return
\* is taken when it is the next statement; the second call is up to the caller
FairXref == WF_vars(Examine) /\ WF_vars(NextDocument) /\ WF_vars(Return)

SpecXrefLive == InitXref /\ [][NextXref]_vars /\ FairXref

---------------------------------------------------------------------------
(* Claims about resolve_xref                                               *)

IsRef(e) == e.data[<<"Name">>] = <<"ref">>

Keys(subs) == {subs[d].key : d \in 1..Len(subs)}

\* the target-document part and the key part of a reference's Effect
RefFile(e) == SubSeq(e.data[<<"Effect">>], 1, Find(e.data[<<"Effect">>], "!") - 1)
RefKey(e)  == SubSeq(e.data[<<"Effect">>], Find(e.data[<<"Effect">>], "!") + 1,
                     Len(e.data[<<"Effect">>]))

\* a reference whose Effect has no '!' or names a document that is not in the dict
BadRef(e, subs) ==
    /\ IsRef(e)
    /\ \/ Find(e.data[<<"Effect">>], "!") = 0
       \/ RefFile(e) # <<>> /\ RefFile(e) \notin Keys(subs)

HasBadRef(subs) ==
    \E d \in 1..Len(subs) : \E j \in 1..Len(subs[d].events) : BadRef(subs[d].events[j], subs)

\* every reference names a key that is a plain word, so that its matches are events
\* the pass never rewrites
PlainKeys(subs) ==
    \A d \in 1..Len(subs) : \A j \in 1..Len(subs[d].events) :
        IsRef(subs[d].events[j]) =>
            Len(RefKey(subs[d].events[j])) = 1 /\ RefKey(subs[d].events[j]) # <<"!">>

\* the events of the document a reference of document d points to
TargetEvents(subs, d, e) ==
    IF RefFile(e) = <<>> THEN subs[d].events
    ELSE subs[CHOOSE t \in 1..Len(subs) : subs[t].key = RefFile(e)].events

\* what reference e of document d is to be replaced by: one event per target event
\* with Effect = key, in the target's order, with e's fields except event_type, Name
\* and Text (the target's) and Effect (empty)
Replacement(subs, d, e) ==
    LET tgt  == TargetEvents(subs, d, e)
        hits == {j \in 1..Len(tgt) : tgt[j].data[<<"Effect">>] = RefKey(e)}
    IN  [k \in 1..Cardinality(hits) |->
            [event_type |-> tgt[Nth(hits, k)].event_type,
             data |-> [f \in DOMAIN e.data |->
                          IF f = <<"Effect">> THEN <<>>
                          ELSE IF f \in {<<"Name">>, <<"Text">>} THEN tgt[Nth(hits, k)].data[f]
                          ELSE e.data[f]]]]

\* document d with every reference replaced in place
RECURSIVE Expanded(_, _, _)
Expanded(subs, d, ev) ==
    IF ev = <<>> THEN <<>>
    ELSE (IF IsRef(ev[1]) THEN Replacement(subs, d, ev[1]) ELSE <<ev[1]>>)
            \o Expanded(subs, d, Tail(ev))

\* C2: when resolve_xref returns, every document is its original event list with each
\* reference event replaced in place by its replacement events, the other events
\* unchanged and in their order.
C2_ReplacedInPlace ==
    (xpc = "done" /\ pass = 1 /\ ~HasBadRef(original) /\ PlainKeys(original)) =>
        \A d \in 1..Len(original) :
            subtitles[d].events = Expanded(original, d, original[d].events)

\* C3: a dict holding a reference without '!' or to an unknown document never makes
\* resolve_xref return normally.
C3_BadRefRaises == HasBadRef(original) => xpc # "done"

\* C4: a second call on the result of a call that returned normally returns normally
\* and leaves every document's event list unchanged.
C4_Idempotent ==
    pass = 2 => /\ xpc # "error"
                /\ xpc = "done" => subtitles = resolved

\* the number of events document d held when the running call started
CountBefore(d) == IF pass = 1 THEN Len(original[d].events) ELSE Len(resolved[d].events)

\* C11: in a pass over a document every event the document held before the call is
\* examined exactly once, none is skipped, and no replacement event is examined.
C11_ExaminedOnce ==
    \A d \in 1..Len(examined) :
        /\ \A j \in 1..Len(examined[d]) : examined[d][j] # 0
        /\ \A j, k \in 1..Len(examined[d]) : j # k => examined[d][j] # examined[d][k]
        /\ xpc = "done" => {examined[d][j] : j \in 1..Len(examined[d])} = 1..CountBefore(d)

\* a step of the first call that examines a self-reference of the original list
\* and splices its expansion in
ExpandsSelfReference ==
    /\ xpc = "running" /\ pass = 1 /\ xpc' = "running"
    /\ xdoc <= Len(subtitles)
    /\ xi < Len(subtitles[xdoc].events)
    /\ subtitles' # subtitles \/ xi' # xi
    /\ origin[xdoc][xi + 1] # 0
    /\ IsRef(subtitles[xdoc].events[xi + 1])
    /\ Find(subtitles[xdoc].events[xi + 1].data[<<"Effect">>], "!") # 0
    /\ RefFile(subtitles[xdoc].events[xi + 1]) = <<>>

\* the events that step put in place of the reference
Expansion ==
    SubSeq(subtitles'[xdoc].events, xi + 1,
           xi + 1 + Len(subtitles'[xdoc].events) - Len(subtitles[xdoc].events))

\* C12: a self-reference expands to the replacements of exactly the events of the
\* document's original list whose Effect equals its key, wherever it sits and whatever
\* earlier references of the document were expanded to, the empty key included.
C12_Step ==
    ExpandsSelfReference =>
        Expansion = Replacement(original, xdoc, subtitles[xdoc].events[xi + 1])

C12_SelfReferenceReadsOriginal == [][C12_Step]_vars

\* C13: every call of resolve_xref ends, by returning or by raising, also when
\* self-references splice several replacements into the list being scanned.
C13_Terminates == (xpc = "running") ~> (xpc \in {"done", "error"})

\* a call has returned after a self-reference of document "A" spliced in several
\* replacements and the scan went on inside them
C13_Witness ==
    /\ xpc = "done" /\ pass = 1
    /\ Len(subtitles[1].events) > Len(original[1].events)
    /\ \E j \in 1..Len(examined[1]) : examined[1][j] = 0
    /\ \A j \in 1..Len(original[1].events) :
          IsRef(original[1].events[j]) => RefFile(original[1].events[j]) = <<>>

=============================================================================
